---- MODULE Spec2Model ----
(***************************************************************************)
(* Model of src/src/oasdowngrade.py: the JSON-to-tree builder, the tree     *)
(* serializer, the visitor, the two rewrite rules (add_nullable and         *)
(* const_to_enum) and the process_json pipeline.                            *)
(*                                                                          *)
(* A decoded JSON value is a record [t, lit, keys, items]:                  *)
(*   object  : keys = the property names in order, items = their values     *)
(*   array   : items = the elements in order                                *)
(*   scalar  : t in {"string","number","boolean","null"}, lit = its token   *)
(* A Node is a record [id, key, value, dt, children]; id stands for the     *)
(* identity of the Python object (the path at which the builder made it,    *)
(* with a trailing 0 for a node made by a rule).  Node.parent is written    *)
(* but never read by the program and is left out.                           *)
(***************************************************************************)
EXTENDS Integers, Sequences, FiniteSets, TLC

VARIABLES
  input,   \* json_obj, the document process_json is called on
  root,    \* the tree, mutated in place by the callbacks
  stack,   \* the frames of the visit_nodes invocations under way
  pc,      \* "anyOf", "const": the pass under way; "serialize"; "done";
           \* "error": AttributeError left process_json; "visit", "visited"
  output,  \* what process_json returned (meaningful once pc = "done")
  run,     \* 1 for the first call of process_json, 2 for the call on its result
  calls,   \* the callback invocations so far: node id and level, in order
  filter,  \* the key argument of visit_nodes: <<>> for None, else <<name>>
  depth    \* the depth argument of visit_nodes

vars == <<input, root, stack, pc, output, run, calls, filter, depth>>

-----------------------------------------------------------------------------
(* Bounds of the model *)

\* longest "anyOf" array among the input documents
MaxLen == 3
\* widest array / object among the plain (rule-free) input documents
MaxWidth == 2

-----------------------------------------------------------------------------
(* Decoded JSON values *)

Obj(ks, vs) == [t |-> "object", lit |-> "", keys |-> ks, items |-> vs]
Arr(vs) == [t |-> "array", lit |-> "", keys |-> <<>>, items |-> vs]
Str(s) == [t |-> "string", lit |-> s, keys |-> <<>>, items |-> <<>>]
Num(s) == [t |-> "number", lit |-> s, keys |-> <<>>, items |-> <<>>]
Bool(s) == [t |-> "boolean", lit |-> s, keys |-> <<>>, items |-> <<>>]
\* Python None: JSON null, and what dict.get returns for a missing key
None == [t |-> "null", lit |-> "null", keys |-> <<>>, items |-> <<>>]

\* isinstance(v, dict)
IsDict(v) == v.t = "object"

\* isinstance(v, list)
IsList(v) == v.t = "array"

\* v.get(k) of a dict v
Get(v, k) ==
  IF \E i \in 1..Len(v.keys) : v.keys[i] = k
  THEN v.items[CHOOSE i \in 1..Len(v.keys) : v.keys[i] = k]
  ELSE None

\* {k: v for ...}: a repeated key keeps its first position and takes the last value
RECURSIVE DictOf(_, _, _)
DictOf(ks, vs, acc) ==
  IF ks = <<>> THEN acc
  ELSE LET k == Head(ks)
           v == Head(vs)
           next == IF \E i \in 1..Len(acc.keys) : acc.keys[i] = k
                   THEN [acc EXCEPT !.items[CHOOSE i \in 1..Len(acc.keys) : acc.keys[i] = k] = v]
                   ELSE [acc EXCEPT !.keys = Append(acc.keys, k), !.items = Append(acc.items, v)]
       IN DictOf(Tail(ks), Tail(vs), next)

-----------------------------------------------------------------------------
(* Tree model *)

JSONType == {"string", "number", "object", "array", "boolean", "null"}
STRING_T == "string"
OBJECT_T == "object"
ARRAY_T == "array"
BOOLEAN_T == "boolean"

\* a node key: a property name (str) or an array index (int)
NameKey(s) == [isIndex |-> FALSE, name |-> s, index |-> 0]
IndexKey(i) == [isIndex |-> TRUE, name |-> "", index |-> i]

Node(id, key, value, dt) ==
  [id |-> id, key |-> key, value |-> value, dt |-> dt, children |-> <<>>]

RECURSIVE json_to_tree(_, _, _)

\* a builder that puts each new child in front of its siblings
json_to_tree_prepend(key, json_obj, id) ==
  LET n == Len(json_obj.items)
  IN IF IsDict(json_obj)
     THEN [Node(id, key, json_obj, OBJECT_T) EXCEPT !.children =
             [i \in 1..n |->
                json_to_tree(NameKey(json_obj.keys[n + 1 - i]), json_obj.items[n + 1 - i],
                             Append(id, i))]]
     ELSE IF IsList(json_obj)
     THEN [Node(id, key, json_obj, ARRAY_T) EXCEPT !.children =
             [i \in 1..n |->
                json_to_tree(IndexKey(n - i), json_obj.items[n + 1 - i], Append(id, i))]]
     ELSE Node(id, key, json_obj, STRING_T)

json_to_tree(key, json_obj, id) ==
  IF IsDict(json_obj)
  THEN [Node(id, key, json_obj, OBJECT_T) EXCEPT !.children =
          [i \in 1..Len(json_obj.keys) |->
             json_to_tree(NameKey(json_obj.keys[i]), json_obj.items[i], Append(id, i))]]
  ELSE IF IsList(json_obj)
  THEN [Node(id, key, json_obj, ARRAY_T) EXCEPT !.children =
          [i \in 1..Len(json_obj.items) |->
             json_to_tree(IndexKey(i - 1), json_obj.items[i], Append(id, i))]]
  ELSE Node(id, key, json_obj, STRING_T)

RECURSIVE tree_to_json(_)
tree_to_json(node) ==
  IF node.dt = OBJECT_T
  THEN DictOf([i \in 1..Len(node.children) |-> node.children[i].key.name],
              [i \in 1..Len(node.children) |-> tree_to_json(node.children[i])],
              Obj(<<>>, <<>>))
  ELSE IF node.dt = ARRAY_T
  THEN Arr([i \in 1..Len(node.children) |-> tree_to_json(node.children[i])])
  ELSE node.value

-----------------------------------------------------------------------------
(* Addressing a node of the tree by the positions of the visitor's frames *)

RECURSIVE NodeAt(_, _)
NodeAt(tree, path) ==
  IF path = <<>> THEN tree ELSE NodeAt(tree.children[Head(path)], Tail(path))

RECURSIVE ReplaceAt(_, _, _)
ReplaceAt(tree, path, new) ==
  IF path = <<>> THEN new
  ELSE [tree EXCEPT !.children[Head(path)] = ReplaceAt(@, Tail(path), new)]

-----------------------------------------------------------------------------
(* Visitor: the call stack of visit_nodes.  A frame is one invocation: pos is *)
(* the position of its node in the parent's children list (the parent's      *)
(* for-loop iterator), level is the level argument it was called with.       *)

Frame(pos, level) == [pos |-> pos, level |-> level]

\* the positions of the frames below the start frame
PathOf(stk) == [i \in 1..(Len(stk) - 1) |-> stk[i + 1].pos]

\* the node of the innermost invocation
Current(tree, stk) == NodeAt(tree, PathOf(stk))

\* the level argument of the innermost invocation
Level(stk) == stk[Len(stk)].level

\* node.key == key or key is None; the filter is <<>> (None) or <<name>>
Matches(node, key) == key = <<>> \/ node.key = NameKey(key[1])

\* the innermost invocation returns: the caller's for-loop takes its next child,
\* or returns in turn when its iterator is exhausted
RECURSIVE Return(_, _)
Return(tree, stk) ==
  IF Len(stk) <= 1 THEN <<>>
  ELSE LET caller == SubSeq(stk, 1, Len(stk) - 1)
           top == stk[Len(stk)]
       IN IF top.pos < Len(Current(tree, caller).children)
          THEN Append(caller, Frame(top.pos + 1, Level(caller) + 1))
          ELSE Return(tree, caller)

\* a visitor that stops descending at the level the depth argument names
Descend_limited(tree, stk) ==
  IF Len(Current(tree, stk).children) > 0 /\ (depth < 0 \/ Level(stk) < depth)
  THEN Append(stk, Frame(1, Level(stk) + 1))
  ELSE Return(tree, stk)

\* for child in node.children: visit_nodes(child, key, callback, level+1, depth)
Descend(tree, stk) ==
  IF Len(Current(tree, stk).children) > 0
  THEN Append(stk, Frame(1, Level(stk) + 1))
  ELSE Return(tree, stk)

-----------------------------------------------------------------------------
(* Rule: add_nullable *)

\* isinstance(child.value, dict) and child.value.get('type') == 'null'
IsNullTyped(child) == IsDict(child.value) /\ Get(child.value, "type") = Str("null")

\* isinstance(child.value, dict) and child.value.get('type') != 'null'
IsNonNullDict(child) == IsDict(child.value) /\ Get(child.value, "type") /= Str("null")

\* any(... for child in node.children)
AnyNullTyped(node) == \E i \in 1..Len(node.children) : IsNullTyped(node.children[i])

\* child.children.append(Node('nullable', True, child, JSONType.BOOLEAN))
WithNullable(child) ==
  [child EXCEPT !.children =
     Append(@, Node(Append(child.id, 0), NameKey("nullable"), Bool("true"), BOOLEAN_T))]

\* list.remove(x): drops the first element that is x
RemoveChild(children, x) ==
  LET at == CHOOSE i \in 1..Len(children) : children[i].id = x.id
  IN [i \in 1..(Len(children) - 1) |-> IF i < at THEN children[i] ELSE children[i + 1]]

\* the for loop over the live list node.children; i is the list iterator's index.
\* Yields the list as the loop leaves it, and whether child.value.get raised
\* AttributeError (child.value is no dict).
RECURSIVE NullableLoop(_, _)
NullableLoop(children, i) ==
  IF i > Len(children) THEN [children |-> children, raised |-> FALSE]
  ELSE LET child == children[i]
           marked == IF IsNonNullDict(child) THEN WithNullable(child) ELSE child
           list == [children EXCEPT ![i] = marked]
       IN IF ~IsDict(child.value)
          THEN [children |-> list, raised |-> TRUE]
          ELSE IF Get(child.value, "type") = Str("null")
          THEN NullableLoop(RemoveChild(list, marked), i + 1)
          ELSE NullableLoop(list, i + 1)

\* the rule without its outer any(...) test
add_nullable_unguarded(node, level) ==
  LET r == NullableLoop(node.children, 1)
  IN [node |-> [node EXCEPT !.children = r.children], raised |-> r.raised]

add_nullable(node, level) ==
  IF AnyNullTyped(node)
  THEN LET r == NullableLoop(node.children, 1)
       IN [node |-> [node EXCEPT !.children = r.children], raised |-> r.raised]
  ELSE [node |-> node, raised |-> FALSE]

-----------------------------------------------------------------------------
(* Rule: const_to_enum *)

const_to_enum(node, level) ==
  [node |-> [node EXCEPT !.dt = ARRAY_T,
                         !.key = NameKey("enum"),
                         !.children = <<Node(Append(node.id, 0), IndexKey(0), node.value, STRING_T)>>,
                         !.value = Arr(<<node.value>>)],
   raised |-> FALSE]

-----------------------------------------------------------------------------
(* Input documents *)

\* the sequences over S of length at most n
SeqsUpTo(S, n) == UNION {[1..k -> S] : k \in 0..n}

\* the sequences of pairwise distinct elements
Distinct(ks) == \A i, j \in 1..Len(ks) : i /= j => ks[i] /= ks[j]

NullT == Obj(<<"type">>, <<Str("null")>>)
StringT == Obj(<<"type">>, <<Str("string")>>)
Const5 == Obj(<<"const">>, <<Num("5")>>)
StringNotNullable == Obj(<<"type", "nullable">>, <<Str("string"), Bool("false")>>)
NullWithConst == Obj(<<"type", "const">>, <<Str("null"), Num("5")>>)

\* the members of an "anyOf" array: schemas with and without a type, and a non-object
Members == {NullT, StringT, Const5, StringNotNullable, NullWithConst, Str("x")}

AnyOfDocs == {Obj(<<"anyOf">>, <<Arr(a)>>) : a \in SeqsUpTo(Members, MaxLen)}

\* documents with no "anyOf" and no "const" key
PlainScalars == {Str("x"), Num("5"), Bool("true"), None}
PlainFlat ==
  PlainScalars
    \cup {Arr(a) : a \in SeqsUpTo(PlainScalars, MaxWidth)}
    \cup {Obj(ks, vs) : <<ks, vs>> \in
            {kv \in SeqsUpTo({"type", "x"}, MaxWidth) \X SeqsUpTo(PlainScalars, MaxWidth) :
               Len(kv[1]) = Len(kv[2]) /\ Distinct(kv[1])}}
PlainDocs ==
  PlainFlat \cup {Obj(<<"properties">>, <<v>>) : v \in PlainFlat}
            \cup {Arr(<<v, None>>) : v \in PlainFlat}

Nested(schema) ==
  Obj(<<"type", "properties">>, <<Str("object"), Obj(<<"x">>, <<schema>>)>>)

RuleDocs ==
  { Nested(Obj(<<"anyOf">>, <<Arr(<<NullT, Const5>>)>>)),
    Nested(Obj(<<"anyOf">>, <<Arr(<<Const5, NullT>>)>>)),
    Nested(Obj(<<"anyOf">>, <<Arr(<<StringT, Nested(Const5)>>)>>)),
    Obj(<<"const">>, <<Str("fixed-value")>>),
    Obj(<<"type", "const", "x">>, <<Str("string"), Str("fixed-value"), None>>),
    Obj(<<"const", "enum">>, <<Num("5"), Arr(<<Str("x")>>)>>),
    Obj(<<"enum", "const", "x">>, <<Arr(<<Str("x")>>), Num("5"), Str("x")>>),
    Obj(<<"const">>, <<Const5>>),
    Obj(<<"const">>, <<Arr(<<Const5>>)>>),
    Obj(<<"const">>, <<Obj(<<"anyOf">>, <<Arr(<<StringT, NullT>>)>>)>>),
    Obj(<<"anyOf">>, <<Str("x")>>),
    Obj(<<"anyOf">>, <<Obj(<<"const", "a">>, <<NullT, StringT>>)>>),
    Obj(<<"anyOf">>, <<Obj(<<"a", "const">>, <<StringT, NullT>>)>>),
    Obj(<<"anyOf">>, <<Obj(<<"const", "a">>, <<StringT, NullT>>)>>),
    Obj(<<"anyOf">>, <<Obj(<<"anyOf", "x">>, <<Obj(<<"a">>, <<NullT>>), NullT>>)>>),
    Obj(<<"anyOf">>, <<Obj(<<"anyOf", "x">>, <<Obj(<<"a", "b">>, <<StringT, NullT>>), NullT>>)>>),
    Obj(<<"anyOf">>, <<Arr(<<Arr(<<>>), NullT>>)>>),
    Obj(<<"anyOf">>, <<Arr(<<StringT, Obj(<<"anyOf">>, <<Arr(<<StringT, NullT>>)>>)>>)>>),
    Obj(<<"anyOf">>, <<Obj(<<"anyOf", "x">>, <<Obj(<<"a">>, <<StringT>>), NullT>>)>>),
    Obj(<<"anyOf">>, <<Obj(<<"const", "a">>, <<StringT, StringT>>)>>),
    Obj(<<"anyOf", "const">>, <<Arr(<<Str("x"), NullT>>), Num("5")>>),
    Arr(<<Const5, Obj(<<"anyOf">>, <<Arr(<<StringT, NullT>>)>>)>>) }

Docs == AnyOfDocs \cup PlainDocs \cup RuleDocs

-----------------------------------------------------------------------------
(* Pipeline: process_json *)

\* most calls of process_json in a row, each on the previous call's result
MaxRuns == 2

RootKey == NameKey("root")

\* visit_nodes(root, ...): the start invocation, level=0
StartStack == <<Frame(0, 0)>>

\* json_to_tree('root', json_obj)
Build(json_obj) == json_to_tree(RootKey, json_obj, <<>>)

Init ==
  /\ input \in Docs
  /\ root = Build(input)
  /\ stack = StartStack
  /\ filter = <<"anyOf">>
  /\ depth = -1
  /\ pc = "anyOf"
  /\ output = None
  /\ run = 1
  /\ calls = <<>>

\* one invocation of visit_nodes: the filter test, the callback (called is what
\* callback(node, level) does to the node), and the move to the invocation that
\* runs next; after the last one the pass is over
Visit(called, nextPc, nextFilter) ==
  LET node == Current(root, stack)
      level == Level(stack)
      matches == Matches(node, filter)
      r == IF matches THEN called ELSE [node |-> node, raised |-> FALSE]
      tree == ReplaceAt(root, PathOf(stack), r.node)
      next == Descend(tree, stack)
  IN /\ root' = tree
     /\ calls' = IF matches THEN Append(calls, [id |-> node.id, level |-> level]) ELSE calls
     /\ IF r.raised
        THEN pc' = "error" /\ UNCHANGED <<stack, filter>>
        ELSE IF next = <<>>
        THEN pc' = nextPc /\ stack' = StartStack /\ filter' = nextFilter
        ELSE UNCHANGED <<pc, filter>> /\ stack' = next
     /\ UNCHANGED <<input, output, run, depth>>

\* visit_nodes(root, "anyOf", add_nullable)
VisitAnyOf ==
  /\ pc = "anyOf"
  /\ Visit(add_nullable(Current(root, stack), Level(stack)), "const", <<"const">>)

\* visit_nodes(root, "const", const_to_enum)
VisitConst ==
  /\ pc = "const"
  /\ Visit(const_to_enum(Current(root, stack), Level(stack)), "serialize", <<>>)

\* return tree_to_json(root)
Serialize ==
  /\ pc = "serialize"
  /\ output' = tree_to_json(root)
  /\ pc' = "done"
  /\ UNCHANGED <<input, root, stack, run, calls, filter, depth>>

\* process_json called again, on the document it returned
Rerun ==
  /\ pc = "done"
  /\ run < MaxRuns
  /\ input' = output
  /\ root' = Build(output)
  /\ stack' = StartStack
  /\ filter' = <<"anyOf">>
  /\ pc' = "anyOf"
  /\ run' = run + 1
  /\ calls' = <<>>
  /\ UNCHANGED <<output, depth>>

Next == VisitAnyOf \/ VisitConst \/ Serialize \/ Rerun

Spec == Init /\ [][Next]_vars

-----------------------------------------------------------------------------
(* visit_nodes on its own: any filter, any depth argument, and a callback that *)
(* only takes note of the node and level it is given                          *)

Filters == {<<>>, <<"anyOf">>, <<"const">>, <<"type">>, <<"root">>}
Depths == {-1, 0, 1}

\* a callback that leaves the tree alone
observe(node, level) == [node |-> node, raised |-> FALSE]

InitVisit ==
  /\ input \in Docs
  /\ root = Build(input)
  /\ stack = StartStack
  /\ filter \in Filters
  /\ depth \in Depths
  /\ pc = "visit"
  /\ output = None
  /\ run = 1
  /\ calls = <<>>

\* visit_nodes(root, key, observe, 0, depth)
VisitObserve ==
  /\ pc = "visit"
  /\ Visit(observe(Current(root, stack), Level(stack)), "visited", filter)

NextVisit == VisitObserve

SpecVisit == InitVisit /\ [][NextVisit]_vars

-----------------------------------------------------------------------------
(* Vocabulary of the properties *)

\* the nodes of a tree
RECURSIVE NodesOf(_)
NodesOf(tree) ==
  {tree} \cup UNION {NodesOf(tree.children[i]) : i \in 1..Len(tree.children)}

\* the keys used anywhere in a decoded JSON value
RECURSIVE KeysIn(_)
KeysIn(v) ==
  {v.keys[i] : i \in 1..Len(v.keys)} \cup UNION {KeysIn(v.items[i]) : i \in 1..Len(v.items)}

\* the ids of a node and of the nodes above it
Lineage(id) == {SubSeq(id, 1, k) : k \in 0..Len(id)}

\* p comes before q in pre-order: p is above q, or p branches off to the left of q
PreOrderBefore(p, q) ==
  \/ Len(p) < Len(q) /\ SubSeq(q, 1, Len(p)) = p
  \/ \E k \in 1..Len(p) :
       /\ k <= Len(q)
       /\ SubSeq(p, 1, k - 1) = SubSeq(q, 1, k - 1)
       /\ p[k] < q[k]

\* a document with every "const": X property turned into "enum": [X]
RECURSIVE ConstsAsEnums(_)
ConstsAsEnums(v) ==
  IF IsDict(v)
  THEN DictOf([i \in 1..Len(v.keys) |-> IF v.keys[i] = "const" THEN "enum" ELSE v.keys[i]],
              [i \in 1..Len(v.keys) |->
                 IF v.keys[i] = "const" THEN Arr(<<v.items[i]>>) ELSE ConstsAsEnums(v.items[i])],
              Obj(<<>>, <<>>))
  ELSE IF IsList(v)
  THEN Arr([i \in 1..Len(v.items) |-> ConstsAsEnums(v.items[i])])
  ELSE v

\* the step under way is a callback invocation of the pass pc names
Calling(pass) == pc = pass /\ Matches(Current(root, stack), filter)

\* the node the callback is invoked on, before and after the step
Visited == Current(root, stack)
VisitedAfter == NodeAt(root', PathOf(stack))

\* the parent of the visited node, before and after the step
ParentPath == PathOf(SubSeq(stack, 1, Len(stack) - 1))
Parent == NodeAt(root, ParentPath)
ParentAfter == NodeAt(root', ParentPath)

\* the tree the pipeline started from
Built == Build(input)

\* "anyOf" nodes of the built tree that have a null-typed child
NullBearing == {n \in NodesOf(Built) : n.key = NameKey("anyOf") /\ AnyNullTyped(n)}

\* the null-typed members of those nodes: the children add_nullable is to remove
NullMembers ==
  UNION {{b.children[i].id : i \in {k \in 1..Len(b.children) : IsNullTyped(b.children[k])}} :
           b \in NullBearing}

-----------------------------------------------------------------------------
(* Properties *)

\* C1: when add_nullable runs on an "anyOf" node that has a null-typed child,
\* every child whose value is an object with type /= "null" is kept and
\* serializes with "nullable": true, wherever the null-typed children stand.
C1_Step ==
  Calling("anyOf") /\ AnyNullTyped(Visited) =>
    \A i \in 1..Len(Visited.children) :
      IsNonNullDict(Visited.children[i]) =>
        \E j \in 1..Len(VisitedAfter.children) :
          /\ VisitedAfter.children[j].id = Visited.children[i].id
          /\ Get(tree_to_json(VisitedAfter.children[j]), "nullable") = Bool("true")
C1_NullableOnEveryNonNullSibling == [][C1_Step]_vars

\* C2: after add_nullable has run to its end on an "anyOf" node, the node has
\* no null-typed child left.
C2_Step ==
  Calling("anyOf") /\ pc' /= "error" => ~AnyNullTyped(VisitedAfter)
C2_NoNullTypedChildLeft == [][C2_Step]_vars

\* C3: const_to_enum on a property "const": X of an object leaves the object
\* serializing to the same keys in the same order with the same values, but for
\* "enum": [X] where "const": X stood.
C3_Step ==
  Calling("const") /\ Len(stack) > 1 /\ Parent.dt = OBJECT_T =>
    tree_to_json(ParentAfter) =
      Obj([j \in 1..Len(Parent.children) |->
             IF j = stack[Len(stack)].pos THEN "enum" ELSE Parent.children[j].key.name],
          [j \in 1..Len(Parent.children) |->
             IF j = stack[Len(stack)].pos THEN Arr(<<Visited.value>>)
             ELSE tree_to_json(Parent.children[j])])
C3_ConstBecomesEnumInPlace == [][C3_Step]_vars

\* C4: no step of the first pass raises, and add_nullable keeps every child
\* whose value is not an object, unmarked and in order.
C4_Step ==
  pc = "anyOf" =>
    /\ pc' /= "error"
    /\ Calling("anyOf") =>
         LET keep(children) == SelectSeq(children, LAMBDA c : ~IsDict(c.value))
         IN keep(VisitedAfter.children) = keep(Visited.children)
C4_TotalAndNonObjectsUntouched == [][C4_Step]_vars

\* C5: when process_json ends, const_to_enum has been invoked on every "const"
\* node of the built tree, at any depth, that is not inside a null-typed
\* "anyOf" member.
C5_EveryConstConverted ==
  pc \in {"done", "error"} =>
    \A n \in NodesOf(Built) :
      n.key = NameKey("const") /\ Lineage(n.id) \cap NullMembers = {} =>
        \E i \in 1..Len(calls) : calls[i].id = n.id

\* C6 (as stated): an "anyOf" node with no null-typed child serializes, at the
\* end of process_json, to its input value with the consts turned into enums.
C6_OutputUnchanged ==
  pc = "done" =>
    \A n \in NodesOf(Built) :
      n.key = NameKey("anyOf") /\ ~AnyNullTyped(n) =>
        \A m \in NodesOf(root) : m.id = n.id => tree_to_json(m) = ConstsAsEnums(n.value)

\* C6 (amended): add_nullable on an "anyOf" node with no null-typed child
\* changes nothing and does not raise; and when no "anyOf" node within it and
\* no "anyOf" node it is a member of has a null-typed child, the node serializes
\* at the end to its input value with the consts turned into enums.
C6_Step ==
  Calling("anyOf") /\ ~AnyNullTyped(Visited) =>
    root' = root /\ pc' /= "error"
C6_Untouched(n) ==
  \A b \in NullBearing :
    /\ n.id \notin Lineage(b.id)
    /\ \A i \in 1..Len(b.children) : b.children[i].id /= n.id
C6_End ==
  pc = "done" =>
    \A n \in NodesOf(Built) :
      n.key = NameKey("anyOf") /\ ~AnyNullTyped(n) /\ C6_Untouched(n) =>
        \A m \in NodesOf(root) : m.id = n.id => tree_to_json(m) = ConstsAsEnums(n.value)
C6_NoNullNoOp == [][C6_Step]_vars /\ []C6_End

\* a run that visited an "anyOf" node with no null-typed child and a const in it
C6_Witness ==
  /\ pc = "done"
  /\ input = Obj(<<"anyOf">>, <<Arr(<<StringT, Const5>>)>>)
  /\ Len(calls) = 2
  /\ output = Obj(<<"anyOf">>, <<Arr(<<StringT, Obj(<<"enum">>, <<Arr(<<Num("5")>>)>>)>>)>>)

\* C7: a document with no "anyOf" and no "const" key is rebuilt exactly by
\* tree_to_json from the tree json_to_tree made of it, and process_json
\* returns it as it is.
C7_RoundTrip ==
  KeysIn(input) \cap {"anyOf", "const"} = {} =>
    /\ tree_to_json(root) = input
    /\ pc /= "error"
    /\ pc = "done" => output = input

\* a finished run on an object that holds null, a string and a nested array
C7_Witness ==
  /\ pc = "done"
  /\ input = Obj(<<"properties">>, <<Obj(<<"x", "type">>, <<None, Str("x")>>)>>)
  /\ output = input

\* C8: process_json applied to a document it returned, with no "const" key in
\* it, returns that document again.
C8_Idempotent ==
  run = 2 /\ "const" \notin KeysIn(input) =>
    /\ pc /= "error"
    /\ pc = "done" => output = input

\* C9: in every state the children of every OBJECT node carry pairwise
\* distinct property names.
C9_DistinctKeys ==
  \A n \in NodesOf(root) :
    n.dt = OBJECT_T =>
      \A i, j \in 1..Len(n.children) : i /= j => n.children[i].key /= n.children[j].key

====
